---- MODULE Spec2Model ----
(***************************************************************************)
(* Advice provider of the Miden VM processor                               *)
(* (processor/src/advice/providers.rs).                                    *)
(*                                                                         *)
(* A provider holds a step counter, an advice stack (a Vec<Felt> whose top *)
(* is its last element), an advice map keyed by the 32-byte encoding of a  *)
(* Word, and a Merkle store.  BaseAdviceProvider is generic over the map   *)
(* backend: MemAdviceProvider uses a plain BTreeMap, RecAdviceProvider a   *)
(* RecordingMap and keeps a copy of the initial stack for into_proof.      *)
(*                                                                         *)
(* A Felt is modelled by its canonical integer value; a sequence <<..>>    *)
(* models a Vec, a Word is a 4-tuple of Felts.                             *)
(***************************************************************************)
EXTENDS Integers, Sequences, FiniteSets, TLC

(***************************************************************************)
(* Bounds of the model.                                                    *)
(***************************************************************************)
\* longest advice stack an operation may build
MaxStack == 5
\* largest value of the step counter
MaxStep == 1
\* longest input stack of a construction bundle
MaxInitStack == 2
\* number of operations of a logged execution
MaxLog == 3
\* largest number of inner nodes of a Merkle store
MaxNodes == 4

\* field elements pushed by the program or found in the inputs
Felts == {1, 2}
\* value sequences of advice map entries
ValSeqs == {<<1>>, <<1, 2>>}
\* keys of the advice map (Words)
Keys == {<<1, 0, 0, 0>>, <<0, 0, 0, 1>>}

(***************************************************************************)
(* Helpers on sequences.                                                   *)
(***************************************************************************)
RECURSIVE Reverse(_)
Reverse(s) == IF s = <<>> THEN <<>> ELSE Reverse(Tail(s)) \o <<Head(s)>>

SeqsUpTo(S, n) == UNION {[1..k -> S] : k \in 0..n}

Front(s) == SubSeq(s, 1, Len(s) - 1)

(***************************************************************************)
(* Word::into_bytes: the canonical 32-byte encoding of a Word, each of     *)
(* the four elements as 8 little-endian bytes (the upper four are 0 for    *)
(* the element values below 2^32 that occur here).                         *)
(***************************************************************************)
ElementBytes(x) ==
    <<x % 256, (x \div 256) % 256, (x \div 65536) % 256, (x \div 16777216) % 256, 0, 0, 0, 0>>

into_bytes(w) ==
    ElementBytes(w[1]) \o ElementBytes(w[2]) \o ElementBytes(w[3]) \o ElementBytes(w[4])

\* Felt::from(n as u64) for n below the field modulus
FeltFrom(n) == n

(***************************************************************************)
(* Results: Ok(value) or Err(ExecutionError).  A value is a sequence: a    *)
(* Felt is <<v>>, a Word its four elements, () is <<>>.                    *)
(***************************************************************************)
NoErr == [kind |-> "none", info |-> <<>>]
Ok(v) == [ok |-> TRUE, val |-> v, err |-> NoErr]
Err(kind, info) == [ok |-> FALSE, val |-> <<>>, err |-> [kind |-> kind, info |-> info]]

AdviceStackReadFailed(step) == Err("AdviceStackReadFailed", <<step>>)
AdviceKeyNotFound(key) == Err("AdviceKeyNotFound", key)

(***************************************************************************)
(* KvMap: the map backend.  rec = FALSE is the plain BTreeMap, rec = TRUE  *)
(* the RecordingMap, which wraps the data and an "accessed" collection     *)
(* (trace).                                                                *)
(***************************************************************************)
EmptyKv == [b \in {} |-> <<>>]

KvPut(f, k, v) == [b \in (DOMAIN f) \cup {k} |-> IF b = k THEN v ELSE f[b]]

\* bulk construction from the pairs of a plain collection
KvNew(rec, init) == [rec |-> rec, data |-> init, trace |-> EmptyKv]

KvContains(m, k) == k \in DOMAIN m.data

\* get of a key that is present: a recording map copies the pair into the
\* accessed collection the first time the key is read (reading it again is a
\* no-op); the value read is m.data[k]
KvGet(m, k) ==
    IF m.rec /\ k \notin DOMAIN m.trace
    THEN [m EXCEPT !.trace = KvPut(m.trace, k, m.data[k])]
    ELSE m

\* insert: overwrites the backing collection only
KvInsert(m, k, v) == [m EXCEPT !.data = KvPut(m.data, k, v)]

\* RecordingMap::into_proof: the accessed subset
KvIntoProof(m) == m.trace

(***************************************************************************)
(* NodeIndex: a position (depth, value) of a binary Merkle tree.           *)
(***************************************************************************)
\* u8::try_from succeeds
FitsU8(x) == x <= 255

\* value < 2^depth, for the values below 2^31 that occur here
IndexFits(depth, value) == depth >= 31 \/ value < 2^depth

\* bit i of value (0 above bit 30 for the values that occur here)
Bit(value, i) == IF i >= 31 THEN 0 ELSE (value \div 2^i) % 2

\* NodeIndex::from_elements
from_elements(depth, index) ==
    IF FitsU8(depth) /\ IndexFits(depth, index)
    THEN [ok |-> TRUE, depth |-> depth, value |-> index]
    ELSE [ok |-> FALSE, depth |-> 0, value |-> 0]

(***************************************************************************)
(* MerkleStore: inner nodes keyed by their digest, in a KvMap.  A digest   *)
(* (and the Word it converts to) is a term: a leaf value v is <<v>>, the   *)
(* digest of an inner node is the pair of the digests of its children      *)
(* (Rpo256::merge taken as collision-free).  Every operation returns the   *)
(* store after the call (the recording backend notes the nodes read) and   *)
(* the call's result.                                                      *)
(***************************************************************************)
merge(left, right) == <<left, right>>

StoreNode(left, right) == [left |-> left, right |-> right]

RootNotInStore(root) == Err("RootNotInStore", root)
NodeNotInStore(hash) == Err("NodeNotInStore", hash)
DepthTooBig(depth) == Err("DepthTooBig", <<depth>>)

\* the descent of get_node and get_path: i levels down from hash along the
\* bits of value, the highest first; path collects the siblings passed, the
\* one of the target first
RECURSIVE descend(_, _, _, _, _)
descend(s, hash, value, i, path) ==
    IF i = 0 THEN [s |-> s, res |-> Ok(hash), path |-> path]
    ELSE IF ~KvContains(s, hash)
    THEN [s |-> s, res |-> NodeNotInStore(hash), path |-> <<>>]
    ELSE LET node == s.data[hash]
             child == IF Bit(value, i - 1) = 0 THEN node.left ELSE node.right
             sibling == IF Bit(value, i - 1) = 0 THEN node.right ELSE node.left
         IN descend(KvGet(s, hash), child, value, i - 1, <<sibling>> \o path)

\* MerkleStore::get_path: the node at index under root and its siblings up
\* to (excluding) the root
store_get_path(s, root, index) ==
    IF ~KvContains(s, root)
    THEN [s |-> s, res |-> RootNotInStore(root), path |-> <<>>]
    ELSE descend(KvGet(s, root), root, index.value, index.depth, <<>>)

\* MerkleStore::get_node
store_get_node(s, root, index) ==
    LET g == store_get_path(s, root, index) IN [s |-> g.s, res |-> g.res]

\* MerkleStore::get_leaf_depth: down from root along the bits of index until
\* a digest that is not an inner node; fails when the root is unknown or
\* the tree goes on below tree_depth
RECURSIVE leaf_walk(_, _, _, _, _)
leaf_walk(s, hash, index, tree_depth, depth) ==
    IF ~KvContains(s, hash) THEN [s |-> s, res |-> Ok(<<depth>>)]
    ELSE IF depth = tree_depth THEN [s |-> s, res |-> DepthTooBig(tree_depth + 1)]
    ELSE LET node == s.data[hash]
             child == IF Bit(index, tree_depth - depth - 1) = 0 THEN node.left ELSE node.right
         IN leaf_walk(KvGet(s, hash), child, index, tree_depth, depth + 1)

store_get_leaf_depth(s, root, tree_depth, index) ==
    IF ~KvContains(s, root)
    THEN [s |-> s, res |-> RootNotInStore(root)]
    ELSE leaf_walk(s, root, index, tree_depth, 0)

\* the ancestors of node at position value, from its parent up to the root,
\* given its siblings path: each with its digest and its two children
RECURSIVE inner_nodes(_, _, _)
inner_nodes(node, value, path) ==
    IF path = <<>> THEN <<>>
    ELSE LET left == IF value % 2 = 0 THEN node ELSE Head(path)
             right == IF value % 2 = 0 THEN Head(path) ELSE node
         IN <<[value |-> merge(left, right), left |-> left, right |-> right]>>
              \o inner_nodes(merge(left, right), value \div 2, Tail(path))

\* MerklePath::compute_root
compute_root(node, value, path) ==
    LET inner == inner_nodes(node, value, path) IN
    IF inner = <<>> THEN node ELSE inner[Len(inner)].value

RECURSIVE insert_nodes(_, _)
insert_nodes(s, inner) ==
    IF inner = <<>> THEN s
    ELSE insert_nodes(KvInsert(s, Head(inner).value, StoreNode(Head(inner).left, Head(inner).right)),
                      Tail(inner))

\* MerkleStore::set_node: Ok([root, path]) with the new root and the
\* siblings of the replaced node
store_set_node(s, root, index, value) ==
    LET g == store_get_path(s, root, index) IN
    IF ~g.res.ok THEN [s |-> g.s, res |-> g.res]
    ELSE [s |-> insert_nodes(g.s, inner_nodes(value, index.value, g.path)),
          res |-> Ok([root |-> compute_root(value, index.value, g.path), path |-> g.path])]

\* MerkleStore::merge_roots
store_merge_roots(s, lhs, rhs) ==
    IF ~KvContains(s, lhs) THEN [s |-> s, res |-> RootNotInStore(lhs)]
    ELSE IF ~KvContains(s, rhs) THEN [s |-> s, res |-> RootNotInStore(rhs)]
    ELSE [s |-> KvInsert(s, merge(lhs, rhs), StoreNode(lhs, rhs)), res |-> Ok(merge(lhs, rhs))]

(***************************************************************************)
(* BaseAdviceProvider: [step, stack, map, store].  Every operation returns *)
(* the provider after the call and the call's result.                      *)
(***************************************************************************)
\* as BaseFrom, without stack.reverse()
BaseFromUnreversed(inputs, rec) ==
    [step |-> 0, stack |-> inputs.stack, map |-> KvNew(rec, inputs.map),
     store |-> KvNew(rec, inputs.store)]

\* impl From<AdviceInputs> for BaseAdviceProvider
BaseFrom(inputs, rec) ==
    [step |-> 0, stack |-> Reverse(inputs.stack), map |-> KvNew(rec, inputs.map),
     store |-> KvNew(rec, inputs.store)]

\* as pop_stack, the error tagged with the step after the current one
pop_stack_next_step(p) ==
    IF Len(p.stack) = 0
    THEN [p |-> p, res |-> AdviceStackReadFailed(p.step + 1)]
    ELSE [p |-> [p EXCEPT !.stack = Front(p.stack)],
          res |-> Ok(<<p.stack[Len(p.stack)]>>)]

pop_stack(p) ==
    IF Len(p.stack) = 0
    THEN [p |-> p, res |-> AdviceStackReadFailed(p.step)]
    ELSE [p |-> [p EXCEPT !.stack = Front(p.stack)],
          res |-> Ok(<<p.stack[Len(p.stack)]>>)]

\* as pop_stack_word, the result read from idx upwards
pop_stack_word_deepest_first(p) ==
    IF Len(p.stack) < 4
    THEN [p |-> p, res |-> AdviceStackReadFailed(p.step)]
    ELSE LET idx == Len(p.stack) - 4
             result == <<p.stack[idx + 1], p.stack[idx + 2], p.stack[idx + 3], p.stack[idx + 4]>>
         IN [p |-> [p EXCEPT !.stack = SubSeq(p.stack, 1, idx)], res |-> Ok(result)]

\* as pop_stack_word, with the two middle elements exchanged
pop_stack_word_swapped(p) ==
    IF Len(p.stack) < 4
    THEN [p |-> p, res |-> AdviceStackReadFailed(p.step)]
    ELSE LET idx == Len(p.stack) - 4
             result == <<p.stack[idx + 4], p.stack[idx + 2], p.stack[idx + 3], p.stack[idx + 1]>>
         IN [p |-> [p EXCEPT !.stack = SubSeq(p.stack, 1, idx)], res |-> Ok(result)]

\* as pop_stack_word, a stack that is too short emptied before the error
pop_stack_word_drain(p) ==
    IF Len(p.stack) < 4
    THEN [p |-> [p EXCEPT !.stack = <<>>], res |-> AdviceStackReadFailed(p.step)]
    ELSE LET idx == Len(p.stack) - 4
             result == <<p.stack[idx + 4], p.stack[idx + 3], p.stack[idx + 2], p.stack[idx + 1]>>
         IN [p |-> [p EXCEPT !.stack = SubSeq(p.stack, 1, idx)], res |-> Ok(result)]

pop_stack_word(p) ==
    IF Len(p.stack) < 4
    THEN [p |-> p, res |-> AdviceStackReadFailed(p.step)]
    ELSE LET idx == Len(p.stack) - 4
             \* the Vec is 0-based: stack[idx + i] is p.stack[idx + i + 1]
             result == <<p.stack[idx + 4], p.stack[idx + 3], p.stack[idx + 2], p.stack[idx + 1]>>
         IN [p |-> [p EXCEPT !.stack = SubSeq(p.stack, 1, idx)], res |-> Ok(result)]

\* as pop_stack_dword, the two words returned in the other order
pop_stack_dword_swapped(p) ==
    LET r0 == pop_stack_word(p) IN
    IF ~r0.res.ok THEN r0
    ELSE LET r1 == pop_stack_word(r0.p) IN
         IF ~r1.res.ok THEN r1
         ELSE [p |-> r1.p, res |-> Ok(<<r1.res.val, r0.res.val>>)]

pop_stack_dword(p) ==
    LET r0 == pop_stack_word(p) IN
    IF ~r0.res.ok THEN r0
    ELSE LET r1 == pop_stack_word(r0.p) IN
         IF ~r1.res.ok THEN r1
         ELSE [p |-> r1.p, res |-> Ok(<<r0.res.val, r1.res.val>>)]

\* AdviceSource
SourceValue(value) == [tag |-> "Value", value |-> value, key |-> <<>>, include_len |-> FALSE]
SourceMap(key, include_len) == [tag |-> "Map", value |-> 0, key |-> key, include_len |-> include_len]

\* as push_stack_value, the value inserted at the bottom of the Vec
push_stack_value_bottom(p, value) ==
    [p |-> [p EXCEPT !.stack = <<value>> \o p.stack], res |-> Ok(<<>>)]

\* push_stack, the arm AdviceSource::Value
push_stack_value(p, value) ==
    [p |-> [p EXCEPT !.stack = Append(p.stack, value)], res |-> Ok(<<>>)]

\* as push_stack_map, the values not reversed
push_stack_map_unreversed(p, key, include_len) ==
    LET k == into_bytes(key) IN
    IF ~KvContains(p.map, k)
    THEN [p |-> p, res |-> AdviceKeyNotFound(key)]
    ELSE LET values == p.map.data[k]
             m1 == KvGet(p.map, k)
             s1 == p.stack \o values
             s2 == IF include_len THEN Append(s1, FeltFrom(Len(values))) ELSE s1
         IN [p |-> [p EXCEPT !.stack = s2, !.map = m1], res |-> Ok(<<>>)]

\* as push_stack_map, the length pushed before the values
push_stack_map_len_first(p, key, include_len) ==
    LET k == into_bytes(key) IN
    IF ~KvContains(p.map, k)
    THEN [p |-> p, res |-> AdviceKeyNotFound(key)]
    ELSE LET values == p.map.data[k]
             m1 == KvGet(p.map, k)
             s1 == IF include_len THEN Append(p.stack, FeltFrom(Len(values))) ELSE p.stack
             s2 == s1 \o Reverse(values)
         IN [p |-> [p EXCEPT !.stack = s2, !.map = m1], res |-> Ok(<<>>)]

\* as push_stack_map, the entry taken out of the map
push_stack_map_take(p, key, include_len) ==
    LET k == into_bytes(key) IN
    IF ~KvContains(p.map, k)
    THEN [p |-> p, res |-> AdviceKeyNotFound(key)]
    ELSE LET values == p.map.data[k]
             m1 == KvGet(p.map, k)
             m2 == [m1 EXCEPT !.data = [b \in (DOMAIN m1.data) \ {k} |-> m1.data[b]]]
             s1 == p.stack \o Reverse(values)
             s2 == IF include_len THEN Append(s1, FeltFrom(Len(values))) ELSE s1
         IN [p |-> [p EXCEPT !.stack = s2, !.map = m2], res |-> Ok(<<>>)]

\* as push_stack_map, a key without entry taken as an entry without values
push_stack_map_missing_as_empty(p, key, include_len) ==
    LET k == into_bytes(key) IN
    IF ~KvContains(p.map, k)
    THEN [p |-> [p EXCEPT !.stack = IF include_len THEN Append(@, FeltFrom(0)) ELSE @],
          res |-> Ok(<<>>)]
    ELSE LET values == p.map.data[k]
             m1 == KvGet(p.map, k)
             s1 == p.stack \o Reverse(values)
             s2 == IF include_len THEN Append(s1, FeltFrom(Len(values))) ELSE s1
         IN [p |-> [p EXCEPT !.stack = s2, !.map = m1], res |-> Ok(<<>>)]

\* push_stack, the arm AdviceSource::Map
push_stack_map(p, key, include_len) ==
    LET k == into_bytes(key) IN
    IF ~KvContains(p.map, k)
    THEN [p |-> p, res |-> AdviceKeyNotFound(key)]
    ELSE LET values == p.map.data[k]
             m1 == KvGet(p.map, k)
             s1 == p.stack \o Reverse(values)
             s2 == IF include_len THEN Append(s1, FeltFrom(Len(values))) ELSE s1
         IN [p |-> [p EXCEPT !.stack = s2, !.map = m1], res |-> Ok(<<>>)]

push_stack(p, source) ==
    IF source.tag = "Value"
    THEN push_stack_value(p, source.value)
    ELSE push_stack_map(p, source.key, source.include_len)

\* as insert_into_map, an entry that exists is kept
insert_into_map_keep(p, key, values) ==
    IF KvContains(p.map, into_bytes(key))
    THEN [p |-> p, res |-> Ok(<<>>)]
    ELSE [p |-> [p EXCEPT !.map = KvInsert(p.map, into_bytes(key), values)], res |-> Ok(<<>>)]

\* as insert_into_map, the values also pushed onto the advice stack
insert_into_map_push(p, key, values) ==
    [p |-> [p EXCEPT !.map = KvInsert(p.map, into_bytes(key), values),
                     !.stack = p.stack \o values],
     res |-> Ok(<<>>)]

insert_into_map(p, key, values) ==
    [p |-> [p EXCEPT !.map = KvInsert(p.map, into_bytes(key), values)], res |-> Ok(<<>>)]

InvalidTreeNodeIndex(depth, value) == Err("InvalidTreeNodeIndex", <<depth, value>>)
InvalidTreeDepth(depth) == Err("InvalidTreeDepth", <<depth>>)
MerkleStoreLookupFailed(res) == Err("MerkleStoreLookupFailed", res.err)
MerkleStoreUpdateFailed(res) == Err("MerkleStoreUpdateFailed", res.err)
MerkleStoreMergeFailed(res) == Err("MerkleStoreMergeFailed", res.err)

\* as get_tree_node, a depth above 64 taken as an invalid index
get_tree_node_depth64(p, root, depth, index) ==
    LET ni == from_elements(depth, index) IN
    IF ~ni.ok \/ depth > 64 THEN [p |-> p, res |-> InvalidTreeNodeIndex(depth, index)]
    ELSE LET r == store_get_node(p.store, root, ni) IN
         [p |-> [p EXCEPT !.store = r.s],
          res |-> IF r.res.ok THEN r.res ELSE MerkleStoreLookupFailed(r.res)]

get_tree_node(p, root, depth, index) ==
    LET ni == from_elements(depth, index) IN
    IF ~ni.ok THEN [p |-> p, res |-> InvalidTreeNodeIndex(depth, index)]
    ELSE LET r == store_get_node(p.store, root, ni) IN
         [p |-> [p EXCEPT !.store = r.s],
          res |-> IF r.res.ok THEN r.res ELSE MerkleStoreLookupFailed(r.res)]

\* as get_merkle_path, the index handed to the store without the check
get_merkle_path_unchecked(p, root, depth, index) ==
    LET r == store_get_path(p.store, root, [ok |-> TRUE, depth |-> depth, value |-> index]) IN
    [p |-> [p EXCEPT !.store = r.s],
     res |-> IF r.res.ok THEN Ok(r.path) ELSE MerkleStoreLookupFailed(r.res)]

get_merkle_path(p, root, depth, index) ==
    LET ni == from_elements(depth, index) IN
    IF ~ni.ok THEN [p |-> p, res |-> InvalidTreeNodeIndex(depth, index)]
    ELSE LET r == store_get_path(p.store, root, ni) IN
         [p |-> [p EXCEPT !.store = r.s],
          res |-> IF r.res.ok THEN Ok(r.path) ELSE MerkleStoreLookupFailed(r.res)]

\* as get_leaf_depth, the index checked as the other operations check it
get_leaf_depth_checked(p, root, tree_depth, index) ==
    IF ~FitsU8(tree_depth) THEN [p |-> p, res |-> InvalidTreeDepth(tree_depth)]
    ELSE IF ~from_elements(tree_depth, index).ok
    THEN [p |-> p, res |-> InvalidTreeNodeIndex(tree_depth, index)]
    ELSE LET r == store_get_leaf_depth(p.store, root, tree_depth, index) IN
         [p |-> [p EXCEPT !.store = r.s],
          res |-> IF r.res.ok THEN r.res ELSE MerkleStoreLookupFailed(r.res)]

get_leaf_depth(p, root, tree_depth, index) ==
    IF ~FitsU8(tree_depth) THEN [p |-> p, res |-> InvalidTreeDepth(tree_depth)]
    ELSE LET r == store_get_leaf_depth(p.store, root, tree_depth, index) IN
         [p |-> [p EXCEPT !.store = r.s],
          res |-> IF r.res.ok THEN r.res ELSE MerkleStoreLookupFailed(r.res)]

\* as update_merkle_node, the root handed to set_node as the new value
update_merkle_node_root_as_value(p, root, depth, index, value) ==
    LET node_index == from_elements(depth, index) IN
    IF ~node_index.ok THEN [p |-> p, res |-> InvalidTreeNodeIndex(depth, index)]
    ELSE LET r == store_set_node(p.store, root, node_index, root) IN
         [p |-> [p EXCEPT !.store = r.s],
          res |-> IF r.res.ok THEN Ok(r.res.val.path) ELSE MerkleStoreUpdateFailed(r.res)]

\* as update_merkle_node, the node of the old root dropped from the store
update_merkle_node_in_place(p, root, depth, index, value) ==
    LET node_index == from_elements(depth, index) IN
    IF ~node_index.ok THEN [p |-> p, res |-> InvalidTreeNodeIndex(depth, index)]
    ELSE LET r == store_set_node(p.store, root, node_index, value)
             kept == IF r.res.ok /\ r.res.val.root # root
                     THEN DOMAIN r.s.data \ {root} ELSE DOMAIN r.s.data IN
         [p |-> [p EXCEPT !.store = [r.s EXCEPT !.data = [d \in kept |-> r.s.data[d]]]],
          res |-> IF r.res.ok THEN Ok(r.res.val.path) ELSE MerkleStoreUpdateFailed(r.res)]

\* as update_merkle_node, the path returned from the root downwards
update_merkle_node_path_from_root(p, root, depth, index, value) ==
    LET node_index == from_elements(depth, index) IN
    IF ~node_index.ok THEN [p |-> p, res |-> InvalidTreeNodeIndex(depth, index)]
    ELSE LET r == store_set_node(p.store, root, node_index, value) IN
         [p |-> [p EXCEPT !.store = r.s],
          res |-> IF r.res.ok THEN Ok(Reverse(r.res.val.path)) ELSE MerkleStoreUpdateFailed(r.res)]

update_merkle_node(p, root, depth, index, value) ==
    LET node_index == from_elements(depth, index) IN
    IF ~node_index.ok THEN [p |-> p, res |-> InvalidTreeNodeIndex(depth, index)]
    ELSE LET r == store_set_node(p.store, root, node_index, value) IN
         [p |-> [p EXCEPT !.store = r.s],
          res |-> IF r.res.ok THEN Ok(r.res.val.path) ELSE MerkleStoreUpdateFailed(r.res)]

\* as merge_roots, the two roots handed over in the other order
merge_roots_swapped(p, lhs, rhs) ==
    LET r == store_merge_roots(p.store, rhs, lhs) IN
    [p |-> [p EXCEPT !.store = r.s],
     res |-> IF r.res.ok THEN r.res ELSE MerkleStoreMergeFailed(r.res)]

\* as merge_roots, the store's failure reported as a lookup failure
merge_roots_lookup_error(p, lhs, rhs) ==
    LET r == store_merge_roots(p.store, lhs, rhs) IN
    [p |-> [p EXCEPT !.store = r.s],
     res |-> IF r.res.ok THEN r.res ELSE MerkleStoreLookupFailed(r.res)]

merge_roots(p, lhs, rhs) ==
    LET r == store_merge_roots(p.store, lhs, rhs) IN
    [p |-> [p EXCEPT !.store = r.s],
     res |-> IF r.res.ok THEN r.res ELSE MerkleStoreMergeFailed(r.res)]

\* as advance_clock, the clock advanced by two
advance_clock_twice(p) == [p EXCEPT !.step = p.step + 2]

advance_clock(p) == [p EXCEPT !.step = p.step + 1]

(***************************************************************************)
(* AdviceInputs and the consumer-facing providers.                         *)
(***************************************************************************)
AdviceInputs(stack, map, store) == [stack |-> stack, map |-> map, store |-> store]

\* as into_proof, the stack taken from the live stack
into_proof_live_stack(prov, initStack) ==
    AdviceInputs(Reverse(prov.stack), KvIntoProof(prov.map), KvIntoProof(prov.store))

\* as into_proof, the whole Merkle store instead of its accessed part
into_proof_whole_store(prov, initStack) ==
    AdviceInputs(initStack, KvIntoProof(prov.map), prov.store.data)

\* as into_proof, the whole advice map instead of its accessed part
into_proof_whole_map(prov, initStack) ==
    AdviceInputs(initStack, prov.map.data, KvIntoProof(prov.store))

\* RecAdviceProvider::into_proof
into_proof(prov, initStack) ==
    AdviceInputs(initStack, KvIntoProof(prov.map), KvIntoProof(prov.store))

(***************************************************************************)
(* State.                                                                  *)
(*   kind        which consumer-facing provider: "mem" or "rec"            *)
(*   provider    the BaseAdviceProvider                                    *)
(*   init_stack  RecAdviceProvider.init_stack (<<>> for a MemAdviceProvider)*)
(*   consumed    into_proof has consumed the provider                      *)
(*   proof       the AdviceInputs returned by into_proof                   *)
(* History, for stating the properties:                                    *)
(*   in_stack    the stack of the AdviceInputs a recording provider was    *)
(*               constructed from                                          *)
(*   last        the last operation called, its arguments and its result   *)
(*   track       which history is kept besides: "run", "log" or "none";    *)
(*               "call" for a provider that is called once (see Live)      *)
(*   run         the run of pushes and pops in progress (see NextRun)      *)
(*   log         every operation called since construction                 *)
(*   looked_up   the keys (encoded) that push_stack(Map) calls on a        *)
(*               recording provider have found                             *)
(*   ticks       the number of advance_clock calls since construction      *)
(***************************************************************************)
VARIABLES kind, provider, init_stack, consumed, proof, in_stack, last, track, run, log,
          looked_up, ticks

vars == <<kind, provider, init_stack, consumed, proof, in_stack, last, track, run, log,
          looked_up, ticks>>

KeyBytes == {into_bytes(k) : k \in Keys}

\* the advice maps a caller may supply
InputMaps == UNION {[S -> ValSeqs] : S \in SUBSET KeyBytes}

InputStacks == SeqsUpTo(Felts, MaxInitStack)

Event(op, key, il, vals, res) ==
    [op |-> op, key |-> key, il |-> il, vals |-> vals, res |-> res,
     root |-> <<>>, depth |-> 0, index |-> 0, value |-> <<>>]

\* a Merkle operation: merge_roots(lhs, rhs) has root = lhs and value = rhs
MerkleEvent(op, root, depth, index, value, res) ==
    [op |-> op, key |-> <<>>, il |-> FALSE, vals |-> <<>>, res |-> res,
     root |-> root, depth |-> depth, index |-> index, value |-> value]

NoEvent == Event("new", <<>>, FALSE, <<>>, Ok(<<>>))

(***************************************************************************)
(* A run is what the stack laws speak about:                               *)
(*   "fresh"  the pops that follow the construction, before any other      *)
(*            operation; pend is the input stack not popped yet            *)
(*   "value"  n value pushes and then the pops that take them back; pend   *)
(*            is the pushed values not popped yet, the latest first        *)
(*   "map"    one map push and the pop_stack calls that follow it: key, il *)
(*            are its arguments, vals the values the map held for the key, *)
(*            ins whether insert_into_map of that key was the operation    *)
(*            before it (ivals its values), got the results of the pops    *)
(* base is the stack the run started from, popped the values the last pop  *)
(* of a fresh or value run took off pend.  Runs of pushes are followed     *)
(* when track = "run", the fresh run always.                               *)
(***************************************************************************)
NoRun ==
    [kind |-> "none", base |-> <<>>, pend |-> <<>>, popped |-> <<>>, n |-> 0,
     key |-> <<>>, il |-> FALSE, vals |-> <<>>, ins |-> FALSE, ivals |-> <<>>, got |-> <<>>]

FreshRun(stack) == [NoRun EXCEPT !.kind = "fresh", !.pend = stack]

\* the run after operation e, called in state pre (the one before it was prev)
NextRun(r, e, pre, prev) ==
    CASE e.op = "push_stack_value" /\ track = "run" ->
            IF r.kind = "value" /\ r.popped = <<>>
            THEN [r EXCEPT !.pend = e.vals \o @, !.n = @ + 1]
            ELSE [NoRun EXCEPT !.kind = "value", !.base = pre.stack, !.pend = e.vals, !.n = 1]
      [] e.op = "push_stack_map" /\ e.res.ok /\ track = "run" ->
            [NoRun EXCEPT !.kind = "map", !.base = pre.stack,
                          !.key = e.key, !.il = e.il,
                          !.vals = pre.map.data[into_bytes(e.key)],
                          !.ins = (prev.op = "insert_into_map" /\ prev.key = e.key),
                          !.ivals = IF prev.op = "insert_into_map" /\ prev.key = e.key
                                    THEN prev.vals ELSE <<>>]
      [] e.op = "pop_stack" /\ r.kind \in {"fresh", "value"} ->
            IF r.pend # <<>>
            THEN [r EXCEPT !.pend = Tail(@), !.popped = <<Head(r.pend)>>]
            ELSE IF r.kind = "fresh" THEN [r EXCEPT !.popped = <<>>] ELSE NoRun
      [] e.op = "pop_stack" /\ r.kind = "map" ->
            IF Len(r.got) < Len(r.vals) + (IF r.il THEN 1 ELSE 0)
            THEN [r EXCEPT !.got = Append(@, e.res.val)]
            ELSE NoRun
      [] e.op = "pop_stack_word" /\ r.kind = "value" /\ Len(r.pend) >= 4 ->
            [r EXCEPT !.pend = SubSeq(@, 5, Len(@)), !.popped = SubSeq(r.pend, 1, 4)]
      [] OTHER -> NoRun

\* the frame of one provider operation: r is [p, res] of the operation
Called(e, r) ==
    /\ provider' = r.p
    /\ last' = e
    /\ run' = NextRun(run, e, provider, last)
    /\ log' = IF track = "log" THEN Append(log, e) ELSE log
    /\ looked_up' = IF kind = "rec" /\ e.op = "push_stack_map" /\ e.res.ok
                    THEN looked_up \cup {into_bytes(e.key)}
                    ELSE looked_up
    /\ ticks' = IF e.op = "advance_clock" THEN ticks + 1 ELSE ticks
    /\ UNCHANGED <<kind, init_stack, consumed, proof, in_stack, track>>

\* a provider can be called: it is not consumed, a logged run is not full,
\* and a provider tracked as "call" has been called, if at all, for
\* advance_clock only
Live ==
    /\ ~consumed
    /\ track = "log" => Len(log) < MaxLog
    /\ track = "call" => last.op \in {"new", "advance_clock"}

(***************************************************************************)
(* Construction: MemAdviceProvider::from / RecAdviceProvider::from.        *)
(***************************************************************************)
MemFrom(in) == [provider |-> BaseFrom(in, FALSE), init_stack |-> <<>>]

\* as RecFrom, the base provider given the stack as it came
RecFromUnreversed(in) == [provider |-> BaseFromUnreversed(in, TRUE), init_stack |-> in.stack]

RecFrom(in) == [provider |-> BaseFrom(in, TRUE), init_stack |-> in.stack]

\* modes: pairs <<kind, track>>
InitWith(modes, bundles) ==
    /\ \E md \in modes : kind = md[1] /\ track = md[2]
    /\ \E in \in bundles :
         LET c == IF kind = "rec" THEN RecFrom(in) ELSE MemFrom(in) IN
           /\ provider = c.provider
           /\ init_stack = c.init_stack
           /\ in_stack = IF kind = "rec" THEN in.stack ELSE <<>>
           /\ run = FreshRun(in.stack)
    /\ consumed = FALSE
    /\ proof = AdviceInputs(<<>>, EmptyKv, EmptyKv)
    /\ last = NoEvent
    /\ log = <<>>
    /\ looked_up = {}
    /\ ticks = 0

\* the inner nodes of the tree with digest t, and the node map of a set of
\* digests (MerkleStore::inner_nodes)
RECURSIVE InnerNodesOf(_)
InnerNodesOf(t) ==
    IF Len(t) = 1 THEN {} ELSE {t} \cup InnerNodesOf(t[1]) \cup InnerNodesOf(t[2])

NodesMap(ds) == [d \in ds |-> StoreNode(d[1], d[2])]

\* leaf values (Words) and the tree of depth 2 with the leaves 1, 2, 2, 1
Leaves == {<<1>>, <<2>>}

SeedRoot == merge(merge(<<1>>, <<2>>), merge(<<2>>, <<1>>))

SeedStore == NodesMap(InnerNodesOf(SeedRoot))

Bundles == {AdviceInputs(s, m, SeedStore) : s \in InputStacks, m \in InputMaps}

\* the bundles a recording provider is constructed from
RecBundles == {AdviceInputs(s, m, SeedStore) : s \in {<<>>, <<1, 2>>}, m \in InputMaps}

Modes == {<<"mem", "run">>, <<"rec", "none">>}

BundlesOf(k) == IF k = "rec" THEN RecBundles ELSE Bundles

Init == \E md \in Modes : InitWith({md}, BundlesOf(md[1]))

(***************************************************************************)
(* Operations of the AdviceProvider trait (pass-through to the base).      *)
(***************************************************************************)
PopStack ==
    /\ Live
    /\ LET r == pop_stack(provider) IN
         Called(Event("pop_stack", <<>>, FALSE, <<>>, r.res), r)

PopStackWord ==
    /\ Live
    /\ LET r == pop_stack_word(provider) IN
         Called(Event("pop_stack_word", <<>>, FALSE, <<>>, r.res), r)

PopStackDword ==
    /\ Live
    /\ LET r == pop_stack_dword(provider) IN
         Called(Event("pop_stack_dword", <<>>, FALSE, <<>>, r.res), r)

PushStackValue ==
    /\ Live
    /\ Len(provider.stack) < MaxStack
    /\ \E v \in Felts :
         LET r == push_stack(provider, SourceValue(v)) IN
           Called(Event("push_stack_value", <<>>, FALSE, <<v>>, r.res), r)

PushStackMap ==
    /\ Live
    /\ \E key \in Keys, include_len \in BOOLEAN :
         LET r == push_stack(provider, SourceMap(key, include_len)) IN
           /\ Len(r.p.stack) <= MaxStack
           /\ Called(Event("push_stack_map", key, include_len, <<>>, r.res), r)

InsertIntoMap ==
    /\ Live
    /\ \E key \in Keys, values \in ValSeqs :
         LET r == insert_into_map(provider, key, values) IN
           Called(Event("insert_into_map", key, FALSE, values, r.res), r)

AdvanceClock ==
    /\ Live
    /\ provider.step < MaxStep
    /\ LET p1 == advance_clock(provider) IN
         Called(Event("advance_clock", <<>>, FALSE, <<>>, Ok(<<>>)), [p |-> p1, res |-> Ok(<<>>)])

IntoProof ==
    /\ ~consumed
    /\ kind = "rec"
    /\ consumed' = TRUE
    /\ proof' = into_proof(provider, init_stack)
    /\ last' = Event("into_proof", <<>>, FALSE, <<>>, Ok(<<>>))
    /\ UNCHANGED <<kind, provider, init_stack, in_stack, track, run, log, looked_up, ticks>>

Next ==
    \/ PopStack
    \/ PopStackWord
    \/ PopStackDword
    \/ PushStackValue
    \/ PushStackMap
    \/ InsertIntoMap
    \/ AdvanceClock
    \/ IntoProof

Spec == Init /\ [][Next]_vars

(***************************************************************************)
(* The Merkle operations of the AdviceProvider trait, on providers         *)
(* constructed from a Merkle store seed.                                   *)
(***************************************************************************)
\* the <<depth, index>> pairs the operations are called with
CallArgs == {<<0, 0>>, <<1, 1>>, <<2, 2>>, <<1, 2>>, <<255, 0>>, <<256, 0>>}

\* every digest the store has a node for, and a Word it has no node for
UnknownRoot == <<1>>
RootsOf(p) == DOMAIN p.store.data \cup {UnknownRoot}

\* the roots the operations are called with: the roots of the forest (the
\* nodes that are no child of another node) and the unknown one
CallRoots(p) ==
    {d \in DOMAIN p.store.data :
        \A e \in DOMAIN p.store.data : p.store.data[e].left # d /\ p.store.data[e].right # d}
      \cup {UnknownRoot}

NodeCount(p) == Cardinality(DOMAIN p.store.data)

\* a logged run calls positions of the trees under roots the store knows
LogArgs == {<<1, 1>>, <<2, 1>>}

Args == IF track = "log" THEN LogArgs ELSE CallArgs

Roots == IF track = "log" THEN CallRoots(provider) \ {UnknownRoot} ELSE CallRoots(provider)

GetTreeNode ==
    /\ Live
    /\ \E root \in Roots, a \in Args :
         LET depth == a[1]
             index == a[2]
             r == get_tree_node(provider, root, depth, index) IN
           Called(MerkleEvent("get_tree_node", root, depth, index, <<>>, r.res), r)

GetMerklePath ==
    /\ Live
    /\ \E root \in Roots, a \in Args :
         LET depth == a[1]
             index == a[2]
             r == get_merkle_path(provider, root, depth, index) IN
           Called(MerkleEvent("get_merkle_path", root, depth, index, <<>>, r.res), r)

GetLeafDepth ==
    /\ Live
    /\ \E root \in Roots, a \in Args :
         LET tree_depth == a[1]
             index == a[2]
             r == get_leaf_depth(provider, root, tree_depth, index) IN
           Called(MerkleEvent("get_leaf_depth", root, tree_depth, index, <<>>, r.res), r)

UpdateMerkleNode ==
    /\ Live
    /\ \E root \in Roots, a \in Args, value \in Leaves :
         LET depth == a[1]
             index == a[2]
             r == update_merkle_node(provider, root, depth, index, value) IN
           /\ NodeCount(r.p) <= MaxNodes
           /\ Called(MerkleEvent("update_merkle_node", root, depth, index, value, r.res), r)

MergeRoots ==
    /\ Live
    /\ \E lhs \in Roots, rhs \in Roots :
         LET r == merge_roots(provider, lhs, rhs) IN
           /\ NodeCount(r.p) <= MaxNodes
           /\ Called(MerkleEvent("merge_roots", lhs, 0, 0, rhs, r.res), r)

NextMerkle ==
    \/ GetTreeNode
    \/ GetMerklePath
    \/ GetLeafDepth
    \/ UpdateMerkleNode
    \/ MergeRoots
    \/ IntoProof

\* the Merkle store seeds a caller may supply
InputStores == {NodesMap(InnerNodesOf(merge(merge(<<1>>, <<2>>), merge(<<1>>, <<2>>))))}

InitMerkle ==
    \E md \in {<<"mem", "none">>, <<"rec", "none">>} :
        InitWith({md}, {AdviceInputs(<<>>, EmptyKv, st) : st \in InputStores})

SpecMerkle == InitMerkle /\ [][NextMerkle]_vars

\* recording providers whose Merkle operations are logged
LogInputs == AdviceInputs(<<>>, EmptyKv, NodesMap(InnerNodesOf(merge(merge(<<1>>, <<2>>), <<2>>))))

InitMerkleLog == InitWith({<<"rec", "log">>}, {LogInputs})

SpecMerkleLog == InitMerkleLog /\ [][NextMerkle]_vars

(***************************************************************************)
(* One call of any operation, on every provider constructed from a stack   *)
(* of up to 9 elements, an advice map and a Merkle store seed, at every    *)
(* step of the clock.                                                      *)
(***************************************************************************)
LongStack == <<1, 2, 3, 4, 5, 6, 7, 8, 9>>

CallStacks == {SubSeq(LongStack, 1, n) : n \in 0..Len(LongStack)}

CallBundles ==
    {AdviceInputs(s, m, st) : s \in CallStacks, m \in InputMaps,
                              st \in {SeedStore} \cup InputStores}

InitCall == \E md \in {<<"mem", "call">>, <<"rec", "call">>} : InitWith({md}, CallBundles)

NextCall == Next \/ NextMerkle

SpecCall == InitCall /\ [][NextCall]_vars

(***************************************************************************)
(* Properties.                                                             *)
(***************************************************************************)
Data == provider.map.data

\* a key of the advice map
ExKey == <<1, 0, 0, 0>>

StackFailed(res, step) == res = AdviceStackReadFailed(step)

\* the Vec `stack` is `base` with the values `vs` pushed in the order of vs
PushedOn(base, vs) == base \o vs

----------------------------------------------------------------------------
(***************************************************************************)
(* Replay: the logged operations of a recording run, called in the same    *)
(* order on a MemAdviceProvider constructed from a replay bundle.          *)
(***************************************************************************)
ApplyOp(p, e) ==
    CASE e.op = "pop_stack" -> pop_stack(p)
      [] e.op = "pop_stack_word" -> pop_stack_word(p)
      [] e.op = "pop_stack_dword" -> pop_stack_dword(p)
      [] e.op = "push_stack_value" -> push_stack(p, SourceValue(e.vals[1]))
      [] e.op = "push_stack_map" -> push_stack(p, SourceMap(e.key, e.il))
      [] e.op = "insert_into_map" -> insert_into_map(p, e.key, e.vals)
      [] e.op = "advance_clock" -> [p |-> advance_clock(p), res |-> Ok(<<>>)]
      [] e.op = "get_tree_node" -> get_tree_node(p, e.root, e.depth, e.index)
      [] e.op = "get_merkle_path" -> get_merkle_path(p, e.root, e.depth, e.index)
      [] e.op = "get_leaf_depth" -> get_leaf_depth(p, e.root, e.depth, e.index)
      [] e.op = "update_merkle_node" -> update_merkle_node(p, e.root, e.depth, e.index, e.value)
      [] e.op = "merge_roots" -> merge_roots(p, e.root, e.value)

RECURSIVE Replay(_, _)
Replay(p, es) ==
    IF es = <<>> THEN <<>>
    ELSE LET r == ApplyOp(p, Head(es)) IN <<r.res>> \o Replay(r.p, Tail(es))

ReplayResults == Replay(MemFrom(proof).provider, log)

\* recording providers whose operations are logged
InitReplay == InitWith({<<"rec", "log">>}, RecBundles)

SpecReplay == InitReplay /\ [][Next]_vars

\* C1: recording round-trip.  The operations of a recording run, run again
\* on a MemAdviceProvider built from the recorder's into_proof() output,
\* return the same result for every operation.
C1_ReplayAgrees ==
    consumed => \A i \in 1..Len(log) : ReplayResults[i] = log[i].res

\* what holds instead: the replay agrees on every run in which no map push
\* has failed
C1_ReplayOfFoundKeys ==
    (consumed /\ \A i \in 1..Len(log) : log[i].res.err.kind # "AdviceKeyNotFound")
        => \A i \in 1..Len(log) : ReplayResults[i] = log[i].res

\* a key is read, overwritten and read again, and the replay agrees
C1_WitnessOverwrite ==
    /\ consumed /\ Len(log) = 3
    /\ log[1].op = "push_stack_map" /\ log[1].res.ok /\ log[1].key = ExKey
    /\ log[2].op = "insert_into_map" /\ log[2].key = ExKey /\ log[2].vals = <<1>>
    /\ log[3].op = "push_stack_map" /\ log[3].res.ok /\ log[3].key = ExKey
    /\ proof.map = [b \in {into_bytes(ExKey)} |-> <<1, 2>>]
    /\ \A i \in 1..3 : ReplayResults[i] = log[i].res

----------------------------------------------------------------------------
\* C2: pop_stack_word inverts four pushes.  After push_stack(Value(a)), (b),
\* (c), (d) in that order (a run of n = 4 value pushes, so that the values
\* not popped are <<d, c, b, a>>), pop_stack_word returns the Word
\* (d, c, b, a) and the stack is what it was before the four pushes.  More
\* generally, after any run of value pushes the word is the last four
\* pushed values, the latest first, and the stack is the base of the run
\* with the earlier pushes on it.
C2_PopWordInvertsPushes ==
    (run.kind = "value" /\ last.op = "pop_stack_word") =>
        /\ last.res = Ok(run.popped)
        /\ provider.stack = PushedOn(run.base, Reverse(run.pend))

C2_Witness ==
    /\ run.kind = "value" /\ last.op = "pop_stack_word"
    /\ run.n = 4 /\ run.pend = <<>>
    /\ last.res.ok /\ last.res.val = <<1, 2, 2, 1>>
    /\ run.base = <<2>> /\ provider.stack = <<2>>

----------------------------------------------------------------------------
\* C3 as claimed: pop_stack_word on a stack of at least 4 elements removes
\* the top 4 and returns a Word whose first component is the deepest of the
\* four removed elements and whose last component is the element on top.
C3_Claimed ==
    [][(last'.op = "pop_stack_word" /\ Len(provider.stack) >= 4) =>
         LET s == provider.stack
             n == Len(provider.stack)
         IN /\ last'.res.ok
            /\ provider'.stack = SubSeq(s, 1, n - 4)
            /\ last'.res.val[1] = s[n - 3]
            /\ last'.res.val[4] = s[n]]_vars

\* C3 amended: pop_stack_word on a stack of at least 4 elements removes the
\* top 4 and returns them in the order four pop_stack calls would: the
\* first component is the element that was on top, the last component the
\* deepest of the four.
C3_PopWordOrder ==
    [][(last'.op = "pop_stack_word" /\ Len(provider.stack) >= 4) =>
         LET s == provider.stack
             n == Len(provider.stack)
         IN /\ last'.res.ok
            /\ provider'.stack = SubSeq(s, 1, n - 4)
            /\ last'.res.val = <<s[n], s[n - 1], s[n - 2], s[n - 3]>>]_vars

C3_Witness ==
    /\ last.op = "pop_stack_word" /\ last.res.ok
    /\ last.res.val[1] # last.res.val[4]
    /\ Len(provider.stack) = 1

----------------------------------------------------------------------------
\* C4: reverse-on-load.  A provider (Mem or Rec) constructed from inputs
\* whose stack is <<s0, .., s(n-1)>> returns s0, s1, .., s(n-1) from n
\* successive pop_stack calls, and the (n+1)-th fails with
\* AdviceStackReadFailed.  In a fresh run, run.pend is the part of the input
\* stack that the pops so far have not reached and run.popped its element
\* that the last pop reached (none once all n are taken).
C4_ReverseOnLoad ==
    (run.kind = "fresh" /\ last.op = "pop_stack") =>
        IF run.popped # <<>>
        THEN last.res = Ok(run.popped)
        ELSE StackFailed(last.res, provider.step) /\ provider.stack = <<>>

C4_Witness ==
    /\ run.kind = "fresh" /\ last.op = "pop_stack"
    /\ kind = "rec" /\ in_stack = <<1, 2>>
    /\ run.pend = <<>> /\ run.popped = <<2>>

C4_WitnessFail ==
    /\ run.kind = "fresh" /\ last.op = "pop_stack"
    /\ kind = "rec" /\ in_stack = <<1, 2>>
    /\ run.popped = <<>> /\ ~last.res.ok

----------------------------------------------------------------------------
\* C5: LIFO law.  From any reachable state, n value pushes x1..xn followed
\* by pops: every pop succeeds and returns the latest pushed value not yet
\* popped (so n pops return xn, .., x1), and the stack is the stack before
\* the pushes with the values not yet popped on it (after n pops: the stack
\* before the pushes).
C5_Lifo ==
    (run.kind = "value") =>
        /\ provider.stack = PushedOn(run.base, Reverse(run.pend))
        /\ (last.op = "pop_stack" => last.res = Ok(run.popped))

C5_Witness ==
    /\ run.kind = "value" /\ last.op = "pop_stack"
    /\ run.n = 3 /\ run.pend = <<>> /\ run.popped = <<1>>
    /\ run.base = <<2, 2>> /\ provider.stack = <<2, 2>>

----------------------------------------------------------------------------
\* C6: push_stack(Map{key, include_len}) for a key present in the advice
\* map with values <<v0, .., v(m-1)>> succeeds and pushes the values in
\* reverse order, so that v0 is above v1 .. above v(m-1); with include_len
\* it pushes one further element, m, on top (the stack grows by m + 1 and
\* the next pop_stack returns m); without, the stack grows by m and the next
\* pop_stack returns v0.
C6_PushMap ==
    [][(last'.op = "push_stack_map" /\ into_bytes(last'.key) \in DOMAIN Data) =>
         LET vs == Data[into_bytes(last'.key)]
             m == Len(vs)
             s == provider.stack
             t == provider'.stack
         IN /\ last'.res.ok
            /\ Len(t) = Len(s) + m + (IF last'.il THEN 1 ELSE 0)
            /\ SubSeq(t, 1, Len(s)) = s
            /\ \A i \in 1..m : t[Len(s) + m + 1 - i] = vs[i]
            /\ last'.il => t[Len(t)] = m /\ pop_stack(provider').res = Ok(<<m>>)
            /\ (~last'.il /\ m > 0) => pop_stack(provider').res = Ok(<<vs[1]>>)]_vars

C6_Witness ==
    /\ run.kind = "map" /\ last.op = "push_stack_map"
    /\ run.il /\ run.vals = <<1, 2>>
    /\ provider.stack = <<1, 2, 1, 2>>

C6_WitnessNoLen ==
    /\ run.kind = "map" /\ last.op = "push_stack_map"
    /\ ~run.il /\ run.vals = <<1, 2>>
    /\ provider.stack = <<1, 2, 1>>

----------------------------------------------------------------------------
\* the example map of C7
ExMap == [b \in {into_bytes(ExKey)} |-> <<1, 2, 3, 4>>]

ExRun == run.kind = "map" /\ run.key = ExKey /\ run.il /\ run.vals = <<1, 2, 3, 4>>

\* the providers constructed from the example map and an empty stack
InitEx == \E md \in Modes : InitWith({md}, {AdviceInputs(<<>>, ExMap, SeedStore)})

SpecEx == InitEx /\ [][Next]_vars

\* C7 as claimed: for a provider whose advice map is {K: [1,2,3,4]}, after
\* push_stack(Map{key: K, include_len: true}) five successive pop_stack
\* calls return 1, 2, 3, 4 and then 4 (the length last).
C7_Claimed ==
    ExRun => \A j \in 1..Len(run.got) : run.got[j] = << <<1, 2, 3, 4, 4>>[j] >>

\* C7 amended: the five pop_stack calls return 4 (the length) first and
\* then 1, 2, 3, 4 (the values in their original order).
C7_LenThenValues ==
    ExRun => \A j \in 1..Len(run.got) : run.got[j] = << <<4, 1, 2, 3, 4>>[j] >>

C7_Witness == ExRun /\ Len(run.got) = 5 /\ last.op = "pop_stack" /\ provider.stack = <<>>

----------------------------------------------------------------------------
\* C8: map round-trip.  insert_into_map(k, vs), then push_stack(Map{key: k,
\* include_len: false}), then |vs| pop_stack calls: the pops return the
\* elements of vs in their original order and leave the stack as it was
\* before the push.
C8_MapRoundTrip ==
    (run.kind = "map" /\ run.ins /\ ~run.il) =>
        /\ \A j \in 1..Len(run.got) : j <= Len(run.ivals) /\ run.got[j] = <<run.ivals[j]>>
        /\ Len(run.got) = Len(run.ivals) => provider.stack = run.base

C8_Witness ==
    /\ run.kind = "map" /\ run.ins /\ ~run.il
    /\ run.ivals = <<1, 2>> /\ run.got = << <<1>>, <<2>> >>
    /\ last.op = "pop_stack" /\ provider.stack = run.base /\ run.base = <<1>>

----------------------------------------------------------------------------
\* C9: advice map invariant.  insert_into_map always returns Ok and binds
\* the key to the values given, leaving every other key as it was; no other
\* operation changes the map: no key is removed, and push_stack(Map) does
\* not consume the entry, so pushing the same key again gives the same
\* result.  Hence the value bound to a key is always the one of the most
\* recent insert_into_map for it, or the construction value.
C9_MapLastWriteWins ==
    [][IF last'.op = "insert_into_map"
       THEN /\ last'.res = Ok(<<>>)
            /\ Data' = KvPut(Data, into_bytes(last'.key), last'.vals)
       ELSE /\ Data' = Data
            /\ (last'.op = "push_stack_map" /\ last'.res.ok) =>
                 LET again == push_stack(provider', SourceMap(last'.key, last'.il)) IN
                   /\ again.res = last'.res
                   /\ SubSeq(again.p.stack, Len(provider'.stack) + 1, Len(again.p.stack))
                        = SubSeq(provider'.stack, Len(provider.stack) + 1, Len(provider'.stack))]_vars

\* an entry of the construction is overwritten
C9_Witness ==
    /\ last.op = "insert_into_map" /\ last.res.ok
    /\ last.key = ExKey /\ last.vals = <<1>>
    /\ kind = "rec" /\ provider.map.trace = [b \in {into_bytes(ExKey)} |-> <<1, 2>>]
    /\ Data[into_bytes(ExKey)] = <<1>>

\* an entry is pushed a second time
C9_WitnessPush ==
    /\ last.op = "push_stack_map" /\ last.res.ok /\ ~last.il
    /\ run.kind = "map" /\ run.vals = <<1, 2>>
    /\ provider.stack = <<2, 1, 2, 1>>

----------------------------------------------------------------------------
\* C10: the AdviceInputs returned by into_proof carries as its stack the
\* stack of the construction input, in the caller's order, whatever was
\* popped and pushed in between; the live stack and the step counter do not
\* influence it.
C10_ProofStack == consumed => proof.stack = in_stack

C10_Witness ==
    /\ consumed /\ in_stack = <<1, 2>> /\ proof.stack = <<1, 2>>
    /\ provider.stack = <<1, 1>> /\ provider.step = 1

----------------------------------------------------------------------------
\* C11: the advice map of into_proof's output has exactly the keys that
\* push_stack(Map) calls of the recording run have found: a key that was
\* only in the construction map or only written by insert_into_map is not
\* in it, a lookup that failed leaves no key in it, and a key found several
\* times is in it once.
C11_ProofMapKeys == consumed => DOMAIN proof.map = looked_up

\* one key was found, the other was in the map and never looked up
C11_Witness ==
    /\ consumed
    /\ DOMAIN Data = KeyBytes
    /\ looked_up = {into_bytes(ExKey)}
    /\ DOMAIN proof.map = {into_bytes(ExKey)}

\* nothing was found, although the map had both keys
C11_WitnessNone ==
    /\ consumed /\ DOMAIN Data = KeyBytes /\ looked_up = {} /\ proof.map = EmptyKv

----------------------------------------------------------------------------
Accessed == DOMAIN provider.map.trace

\* C12 as claimed: in every state of a recording provider the keys of the
\* accessed collection are a strict subset of the keys ever present in the
\* backing map (no key is ever removed from it, so these are the keys
\* present): a subset and never equal to it.
C12_Claimed ==
    kind = "rec" => (Accessed \subseteq DOMAIN Data /\ Accessed # DOMAIN Data)

\* C12 amended: the keys of the accessed collection are a subset of the
\* keys of the backing map; they are all of them once every key has been
\* read.
C12_AccessedSubset ==
    kind = "rec" => (Accessed \subseteq DOMAIN Data
                     /\ DOMAIN provider.store.trace \subseteq DOMAIN provider.store.data)

\* every key of a map of two keys has been read
C12_Witness ==
    /\ kind = "rec" /\ ~consumed
    /\ DOMAIN Data = KeyBytes /\ Accessed = KeyBytes
    /\ last.op = "push_stack_map" /\ last.res.ok

----------------------------------------------------------------------------
\* C13: pop_stack on an empty stack returns AdviceStackReadFailed(step),
\* step being the number of advance_clock calls since construction, and
\* leaves the provider (stack, map, store) as it was.
C13_PopEmpty ==
    [][(last'.op = "pop_stack" /\ provider.stack = <<>>) =>
         /\ last'.res = AdviceStackReadFailed(ticks)
         /\ provider' = provider]_vars

C13_Witness ==
    /\ last.op = "pop_stack" /\ last.res = AdviceStackReadFailed(1)
    /\ ticks = 1 /\ provider.stack = <<>>
    /\ kind = "rec" /\ Accessed # {}

----------------------------------------------------------------------------
\* C14: pop_stack_word on a stack of 0, 1, 2 or 3 elements returns
\* AdviceStackReadFailed(step) and removes nothing.
C14_PopWordShort ==
    [][(last'.op = "pop_stack_word" /\ Len(provider.stack) < 4) =>
         /\ last'.res = AdviceStackReadFailed(provider.step)
         /\ provider'.stack = provider.stack
         /\ provider' = provider]_vars

C14_Witness ==
    /\ last.op = "pop_stack_word" /\ last.res = AdviceStackReadFailed(1)
    /\ provider.stack = <<1, 2, 2>>

----------------------------------------------------------------------------
\* C15: push_stack(Map{key, ..}) for a key without entry in the advice map
\* returns AdviceKeyNotFound(key) and leaves the stack, the map and the
\* accessed collection as they were; push_stack(Value(v)) returns Ok.
C15_PushErrors ==
    [][/\ (last'.op = "push_stack_map" /\ into_bytes(last'.key) \notin DOMAIN Data) =>
            /\ last'.res = AdviceKeyNotFound(last'.key)
            /\ provider' = provider
       /\ last'.op = "push_stack_value" => last'.res = Ok(<<>>)]_vars

C15_Witness ==
    /\ last.op = "push_stack_map" /\ last.res = AdviceKeyNotFound(ExKey)
    /\ kind = "rec" /\ Accessed # {} /\ provider.stack # <<>>

C15_WitnessValue ==
    /\ last.op = "push_stack_value" /\ last.res.ok /\ Len(provider.stack) = MaxStack

----------------------------------------------------------------------------
\* the pair (depth, index) does not convert to a NodeIndex: the depth does
\* not fit a byte, or index >= 2^depth
NotAnIndex(depth, index) == depth > 255 \/ (depth < 31 /\ index >= 2^depth)

StoreTrace == provider.store.trace

\* C16: get_tree_node, get_merkle_path and update_merkle_node called with
\* a (depth, index) pair that does not convert to a NodeIndex fail with
\* InvalidTreeNodeIndex{depth, value} carrying the depth and the index
\* given, and the Merkle store and its accessed collection are as before
\* the call.
C16_InvalidIndex ==
    [][(/\ last'.op \in {"get_tree_node", "get_merkle_path", "update_merkle_node"}
        /\ NotAnIndex(last'.depth, last'.index)) =>
          /\ last'.res = InvalidTreeNodeIndex(last'.depth, last'.index)
          /\ provider'.store = provider.store
          /\ provider' = provider]_vars

\* index >= 2^depth, on a recording provider that has read nodes before
C16_Witness ==
    /\ last.op = "get_merkle_path" /\ last.depth = 1 /\ last.index = 2
    /\ last.res = InvalidTreeNodeIndex(1, 2)
    /\ last.root \in DOMAIN provider.store.data
    /\ kind = "rec" /\ StoreTrace # EmptyKv

\* a depth that does not fit a byte
C16_WitnessDepth ==
    /\ last.op = "update_merkle_node" /\ last.depth = 256
    /\ last.res = InvalidTreeNodeIndex(256, 0)
    /\ last.root \in DOMAIN provider.store.data

----------------------------------------------------------------------------
\* the call get_tree_node(root, depth = 255, index = 0)
Deep == last'.op = "get_tree_node" /\ last'.depth = 255 /\ last'.index = 0

\* C17 as claimed: get_tree_node(root, 255, 0) on a provider whose store
\* holds only trees of depth below 255 fails with InvalidTreeNodeIndex.
C17_Claimed ==
    [][Deep => last'.res.err.kind = "InvalidTreeNodeIndex"]_vars

\* C17 amended: the pair (255, 0) converts to a NodeIndex (255 fits a byte
\* and 0 < 2^255), so the call reaches the store and fails there, with
\* MerkleStoreLookupFailed.
C17_DeepLookupFails ==
    [][Deep => (~last'.res.ok /\ last'.res.err.kind = "MerkleStoreLookupFailed")]_vars

\* the root is known: the descent ends at a leaf, which has no node
C17_Witness ==
    /\ last.op = "get_tree_node" /\ last.depth = 255 /\ last.index = 0
    /\ last.root \in DOMAIN provider.store.data
    /\ last.res = MerkleStoreLookupFailed(NodeNotInStore(<<1>>))

----------------------------------------------------------------------------
\* C18: get_leaf_depth fails with InvalidTreeDepth{depth} exactly when the
\* tree_depth element does not fit a byte, and then the store is as before;
\* no (depth, index) check is made otherwise: the call goes to the store
\* with any index and returns what the store returns, its failure as
\* MerkleStoreLookupFailed.
C18_LeafDepth ==
    [][last'.op = "get_leaf_depth" =>
         IF last'.depth > 255
         THEN /\ last'.res = InvalidTreeDepth(last'.depth)
              /\ provider' = provider
         ELSE LET r == store_get_leaf_depth(provider.store, last'.root, last'.depth, last'.index)
              IN /\ provider'.store = r.s
                 /\ last'.res.ok = r.res.ok
                 /\ last'.res.ok => last'.res = r.res
                 /\ ~last'.res.ok => last'.res.err.kind = "MerkleStoreLookupFailed"]_vars

C18_Witness ==
    /\ last.op = "get_leaf_depth" /\ last.depth = 256
    /\ last.res = InvalidTreeDepth(256)
    /\ last.root \in DOMAIN provider.store.data
    /\ kind = "rec" /\ StoreTrace # EmptyKv

\* an index that is no index of the depth given reaches the store
C18_WitnessIndex ==
    /\ last.op = "get_leaf_depth" /\ last.depth = 1 /\ last.index = 2
    /\ last.root \in DOMAIN provider.store.data
    /\ last.res.err.kind = "MerkleStoreLookupFailed"

\* the depth of a leaf is returned
C18_WitnessLeaf ==
    /\ last.op = "get_leaf_depth" /\ last.depth = 255 /\ last.res = Ok(<<2>>)

----------------------------------------------------------------------------
\* the value of the node at (depth, index) under root, as get_tree_node of
\* provider p returns it
NodeAt(p, root, depth, index) == get_tree_node(p, root, depth, index).res

C19_WitnessLeaf ==
    /\ last.op = "update_merkle_node"
    /\ last.root = merge(merge(<<1>>, <<2>>), merge(<<1>>, <<2>>))
    /\ last.depth = 2 /\ last.index = 2 /\ last.value = <<2>>
    /\ last.res = Ok(<< <<2>>, merge(<<1>>, <<2>>) >>)
    /\ NodeAt(provider, merge(merge(<<1>>, <<2>>), merge(<<2>>, <<2>>)), 2, 2) = Ok(<<2>>)
    /\ NodeAt(provider, merge(merge(<<1>>, <<2>>), merge(<<2>>, <<2>>)), 2, 0) = Ok(<<1>>)

----------------------------------------------------------------------------
\* the positions of a tree of the store: its height is below MaxNodes + 1
Positions == {dj \in (0..(MaxNodes + 1)) \X (0..(2^(MaxNodes + 1) - 1)) : dj[2] < 2^dj[1]}

\* C20: merge_roots(lhs, rhs) of two roots the store knows returns a root r
\* with get_tree_node(r, 1, 0) = lhs and get_tree_node(r, 1, 1) = rhs, and
\* every node that was reachable under lhs or rhs is reachable under the
\* same root, at the same position, after the merge.
C20_MergeRoots ==
    [][(/\ last'.op = "merge_roots"
        /\ last'.root \in DOMAIN provider.store.data
        /\ last'.value \in DOMAIN provider.store.data) =>
         LET lhs == last'.root
             rhs == last'.value
         IN /\ last'.res.ok
            /\ NodeAt(provider', last'.res.val, 1, 0) = Ok(lhs)
            /\ NodeAt(provider', last'.res.val, 1, 1) = Ok(rhs)
            /\ \A h \in {lhs, rhs}, dj \in Positions :
                 NodeAt(provider, h, dj[1], dj[2]).ok
                    => NodeAt(provider', h, dj[1], dj[2]) = NodeAt(provider, h, dj[1], dj[2])]_vars

\* the seed and a root an update made of it are merged
C20_Witness ==
    /\ last.op = "merge_roots" /\ last.res.ok
    /\ last.root = merge(merge(<<1>>, <<2>>), merge(<<1>>, <<2>>))
    /\ last.value = merge(merge(<<1>>, <<2>>), <<1>>)
    /\ NodeAt(provider, last.res.val, 1, 0) = Ok(last.root)
    /\ NodeAt(provider, last.res.val, 1, 1) = Ok(last.value)
    /\ NodeAt(provider, last.res.val, 3, 2) = Ok(<<1>>)

----------------------------------------------------------------------------
\* C21: merge_roots(lhs, rhs) with lhs or rhs not a root the store knows
\* fails with MerkleStoreMergeFailed and adds no node to the store.
C21_MergeUnknown ==
    [][(/\ last'.op = "merge_roots"
        /\ (\/ last'.root \notin DOMAIN provider.store.data
            \/ last'.value \notin DOMAIN provider.store.data)) =>
         /\ ~last'.res.ok
         /\ last'.res.err.kind = "MerkleStoreMergeFailed"
         /\ provider'.store.data = provider.store.data
         /\ provider' = provider]_vars

\* the right root is unknown, the left one known
C21_Witness ==
    /\ last.op = "merge_roots" /\ last.res.err.kind = "MerkleStoreMergeFailed"
    /\ last.root \in DOMAIN provider.store.data /\ last.value = UnknownRoot
    /\ NodeCount(provider) = 3

\* the left root is unknown
C21_WitnessLeft ==
    /\ last.op = "merge_roots" /\ last.res = MerkleStoreMergeFailed(RootNotInStore(UnknownRoot))
    /\ last.root = UnknownRoot /\ last.value \in DOMAIN provider.store.data

----------------------------------------------------------------------------
\* C24: pop_stack_dword is two pop_stack_word calls in a row.  On a stack of
\* at least 8 elements it removes exactly the top 8 and returns [w0, w1],
\* w0 the word pop_stack_word returns from the top four elements and w1 the
\* word it returns from the next four; on a stack of fewer than 8 elements
\* it fails with AdviceStackReadFailed(step).
C24_PopDword ==
    [][last'.op = "pop_stack_dword" =>
         LET s == provider.stack
             n == Len(s)
             w0 == pop_stack_word(provider)
             w1 == pop_stack_word(w0.p) IN
           IF n >= 8
           THEN /\ last'.res = Ok(<<w0.res.val, w1.res.val>>)
                /\ w0.res.val = <<s[n], s[n - 1], s[n - 2], s[n - 3]>>
                /\ w1.res.val = <<s[n - 4], s[n - 5], s[n - 6], s[n - 7]>>
                /\ provider' = [provider EXCEPT !.stack = SubSeq(s, 1, n - 8)]
           ELSE StackFailed(last'.res, provider.step)]_vars

\* a double word popped off the input stack of 9 elements (its first
\* element is the top), one element left
C24_Witness ==
    /\ last.op = "pop_stack_dword" /\ last.res.ok
    /\ last.res.val = <<<<1, 2, 3, 4>>, <<5, 6, 7, 8>>>>
    /\ provider.stack = <<9>>

\* a stack of 7 elements: the second word cannot be read
C24_WitnessShort ==
    /\ last.op = "pop_stack_dword" /\ StackFailed(last.res, 1)
    /\ in_stack = SubSeq(LongStack, 1, 7)

----------------------------------------------------------------------------
\* C25: a failed pop_stack_dword leaves the advice stack unchanged: when it
\* returns AdviceStackReadFailed (a stack of 0 to 7 elements), the stack
\* after the call is the stack before it, also when the stack held 4 to 7
\* elements and the first pop_stack_word had succeeded.
C25_FailedDwordKeepsStack ==
    [][(last'.op = "pop_stack_dword" /\ ~last'.res.ok) =>
         provider'.stack = provider.stack]_vars

----------------------------------------------------------------------------
ProviderOps ==
    {"pop_stack", "pop_stack_word", "pop_stack_dword", "push_stack_value", "push_stack_map",
     "insert_into_map", "get_tree_node", "get_merkle_path", "get_leaf_depth",
     "update_merkle_node", "merge_roots", "advance_clock"}

\* C26: the step counter is 0 at construction; advance_clock increases it by
\* exactly 1 and changes nothing else of the provider (stack, map and store
\* are as before); no other operation, successful or failing, changes it.
\* Hence the step never decreases.
C26_StepClock ==
    [][/\ last.op = "new" => provider.step = 0
       /\ last'.op = "advance_clock" => provider' = [provider EXCEPT !.step = provider.step + 1]
       /\ last'.op \in ProviderOps \ {"advance_clock"} => provider'.step = provider.step
       /\ provider'.step >= provider.step]_vars

\* the clock advanced on a provider that holds a stack, a map and a store
C26_Witness ==
    /\ last.op = "advance_clock" /\ provider.step = 1
    /\ Len(provider.stack) = 9 /\ Data # EmptyKv /\ provider.store.data # EmptyKv

\* operations that fail, and one that succeeds, after the clock has advanced
C26_WitnessFailing ==
    /\ provider.step = 1
    /\ \/ last.op = "pop_stack_dword" /\ ~last.res.ok /\ Len(provider.stack) = 3
       \/ last.op = "update_merkle_node" /\ last.res.err.kind = "MerkleStoreUpdateFailed"

C26_WitnessOther ==
    /\ provider.step = 1 /\ last.op = "merge_roots" /\ last.res.ok

\* C27: the advice stack is never grown or altered implicitly.
\* insert_into_map, the five Merkle operations and advance_clock leave it as
\* it is; its length increases only in a successful push_stack, by 1 for a
\* Value and by |values| or |values| + 1 for a Map (a failed push leaves it
\* as it is); pop_stack, pop_stack_word and pop_stack_dword leave the advice
\* map and the Merkle store as they are.
C27_StackFrame ==
    [][LET op == last'.op
           grown == Len(provider'.stack) - Len(provider.stack) IN
         /\ op \in {"insert_into_map", "get_tree_node", "get_merkle_path", "get_leaf_depth",
                    "update_merkle_node", "merge_roots", "advance_clock"}
              => provider'.stack = provider.stack
         /\ grown > 0 => op \in {"push_stack_value", "push_stack_map"} /\ last'.res.ok
         /\ (op = "push_stack_value" /\ last'.res.ok) => grown = 1
         /\ (op = "push_stack_map" /\ last'.res.ok) =>
              grown = Len(Data[into_bytes(last'.key)]) + (IF last'.il THEN 1 ELSE 0)
         /\ (op \in {"push_stack_value", "push_stack_map"} /\ ~last'.res.ok)
              => provider'.stack = provider.stack
         /\ op \in {"pop_stack", "pop_stack_word", "pop_stack_dword"}
              => provider'.map = provider.map /\ provider'.store = provider.store]_vars

\* a Merkle update on a provider whose stack is not empty
C27_Witness ==
    /\ last.op = "update_merkle_node" /\ last.res.ok
    /\ provider.stack = Reverse(SubSeq(LongStack, 1, 4))

\* a pop on a recording provider that holds a map and a store
C27_WitnessPop ==
    /\ last.op = "pop_stack_word" /\ last.res.ok /\ kind = "rec"
    /\ Data # EmptyKv /\ provider.store.data = SeedStore

\* a map push of two values and their length
C27_WitnessPush ==
    /\ last.op = "push_stack_map" /\ last.res.ok /\ last.il
    /\ Len(provider.stack) = 5 /\ Len(Data[into_bytes(last.key)]) = 2

----------------------------------------------------------------------------
PathAt(p, root, depth, index) == get_merkle_path(p, root, depth, index).res

\* C28: updates are persistent.  After a successful
\* update_merkle_node(root, depth, index, value) the old root is still known
\* to the store, and get_tree_node and get_merkle_path under the old root
\* return at every index what they returned before the update; neither
\* update_merkle_node nor merge_roots removes or rewrites a node.
C28_Persistent ==
    [][last'.op \in {"update_merkle_node", "merge_roots"} =>
         /\ \A d \in DOMAIN provider.store.data :
              /\ d \in DOMAIN provider'.store.data
              /\ provider'.store.data[d] = provider.store.data[d]
         /\ (last'.op = "update_merkle_node" /\ last'.res.ok) =>
              /\ last'.root \in DOMAIN provider'.store.data
              /\ \A dj \in Positions :
                   /\ NodeAt(provider', last'.root, dj[1], dj[2])
                        = NodeAt(provider, last'.root, dj[1], dj[2])
                   /\ PathAt(provider', last'.root, dj[1], dj[2])
                        = PathAt(provider, last'.root, dj[1], dj[2])]_vars

\* an update at depth 2 that has made two nodes, the old root read after it
C28_Witness ==
    /\ last.op = "update_merkle_node" /\ last.res.ok /\ last.depth = 2
    /\ NodeCount(provider) = 4
    /\ compute_root(last.value, last.index, last.res.val) # last.root
    /\ NodeAt(provider, last.root, 2, last.index).ok

----------------------------------------------------------------------------
\* the provider p without its recording: what a MemAdviceProvider holds
MemOf(p) ==
    [p EXCEPT !.map = KvNew(FALSE, p.map.data), !.store = KvNew(FALSE, p.store.data)]

C23_WitnessRead ==
    /\ kind = "rec" /\ last.op = "get_merkle_path" /\ last.res.ok /\ StoreTrace # EmptyKv

C23_WitnessError ==
    /\ kind = "rec" /\ last.op = "pop_stack_word" /\ ~last.res.ok /\ provider.step = 1

----------------------------------------------------------------------------
\* the nodes the call e visits in the store of p: what a recording store
\* that has recorded nothing yet records during the call
VisitedIn(p, e) ==
    DOMAIN ApplyOp([p EXCEPT !.store = KvNew(TRUE, p.store.data)], e).p.store.trace

\* the nodes visited by the calls of es that are calls of ops, es called on p
RECURSIVE VisitedRun(_, _, _)
VisitedRun(p, es, ops) ==
    IF es = <<>> THEN {}
    ELSE (IF Head(es).op \in ops THEN VisitedIn(p, Head(es)) ELSE {})
           \cup VisitedRun(ApplyOp(p, Head(es)).p, Tail(es), ops)

\* every get_tree_node and get_merkle_path call of the run that succeeded
\* succeeds with the same result on a provider built from the proof alone
ProofSuffices ==
    \A i \in 1..Len(log) :
        (log[i].op \in {"get_tree_node", "get_merkle_path"} /\ log[i].res.ok)
            => ApplyOp(MemFrom(proof).provider, log[i]).res = log[i].res

\* C22, as claimed: the Merkle store of into_proof's output contains only
\* nodes visited while resolving a get_tree_node, get_merkle_path or
\* update_merkle_node call of the recording run, and it is sufficient for
\* the run's successful get_tree_node and get_merkle_path calls.
C22_Claimed ==
    consumed =>
        /\ DOMAIN proof.store \subseteq
             VisitedRun(RecFrom(LogInputs).provider, log,
                        {"get_tree_node", "get_merkle_path", "update_merkle_node"})
        /\ ProofSuffices

\* C22, amended: the nodes of the output are nodes visited by a
\* get_tree_node, get_merkle_path, get_leaf_depth or update_merkle_node call
\* of the run (get_leaf_depth reads the nodes it walks over through the
\* same recording store) and are the nodes of the live store; the output is
\* sufficient as claimed.
C22_ProofStore ==
    consumed =>
        /\ DOMAIN proof.store \subseteq
             VisitedRun(RecFrom(LogInputs).provider, log,
                        {"get_tree_node", "get_merkle_path", "get_leaf_depth",
                         "update_merkle_node"})
        /\ \A d \in DOMAIN proof.store : proof.store[d] = provider.store.data[d]
        /\ ProofSuffices

\* a node made by an update and read under the new root is part of the proof
C22_Witness ==
    /\ consumed /\ Len(log) = 3
    /\ log[1].op = "update_merkle_node" /\ log[1].res.ok /\ log[1].depth = 2
    /\ log[2].op = "get_merkle_path" /\ log[2].res.ok /\ log[2].depth = 2
    /\ log[2].root \notin DOMAIN LogInputs.store
    /\ log[2].root \in DOMAIN proof.store

\* a run whose only reads are get_leaf_depth calls
C22_WitnessLeafDepth ==
    /\ consumed /\ Len(log) = 1 /\ log[1].op = "get_leaf_depth" /\ log[1].res.ok
    /\ proof.store # EmptyKv

====
